---------------------------- MODULE Spec2Model ----------------------------
(***************************************************************************)
(* Model of the spectral preprocessing pipeline of NIR_system_Demo:        *)
(*   src/spectrum_model.py                       (feed-forward network)    *)
(*   src/create_predictor/svr/spectrum_model.py  (SVR)                     *)
(*                                                                         *)
(* The two files share apply_snv, compute_vip_scores, select_features_vip  *)
(* and save_preprocessing_params verbatim; they differ in main and in the   *)
(* predictor that main fits.                                               *)
(*                                                                         *)
(* The specifications share the module's variables:                        *)
(*   SpecVip    calls of select_features_vip                               *)
(*   SpecSnv    calls of apply_snv                                         *)
(*   SpecScale  calls of apply_property_scaling and the exported inverse   *)
(*   SpecPls    the component count compute_vip_scores gives to PLS        *)
(*   SpecSave   calls of save_preprocessing_params, with and without PCA   *)
(*   SpecWrite  the writes of the two JSON files, seen by a reader         *)
(*   SpecSplit  the seeded train/validation split of successive runs       *)
(*   SpecTrain  train_model's epoch loop and the checkpoint main loads     *)
(*   Spec       runs of main (both variants) and the documents they export *)
(***************************************************************************)
EXTENDS Integers, Sequences, FiniteSets, TLC

VARIABLES
    vip_call,       \* the call of select_features_vip: arguments and result
    snv_call,       \* the call of apply_snv: argument, argument after, result
    variant,        \* the script that is run: "dnn" or "svr"
    run,            \* main's position and locals in the current (or last) run
    disk,           \* the two JSON documents in the script's model directory
    scale_call,     \* the call of apply_property_scaling: argument and results
    save_call,      \* the call of save_preprocessing_params: arguments and document
    io,             \* the two JSON files as a writer and a reader see them, chunk by chunk
    pls_call,       \* the call of compute_vip_scores: shape, requested and fitted component count
    split,          \* the random generator, the run and the partitions of the runs so far
    train           \* train_model: the loop's locals, the checkpoint file and what main loads

vars == <<vip_call, snv_call, variant, run, disk, scale_call, save_call, io, pls_call, split, train>>

\* Before the call.
NoVipCall == [called |-> FALSE, n_features |-> 0, vip |-> <<>>, tie |-> <<>>,
              top_k |-> 0, selected_idx |-> <<>>]

NoSnvCall == [called |-> FALSE, arg |-> <<>>, spectra |-> <<>>, snv_spectra |-> <<>>]

NoSaveCall == [called |-> FALSE]

\* A validation loss: a number, float('inf') or nan.
Loss(v) == [kind |-> "num", v |-> v]

LossInf == [kind |-> "inf", v |-> 0]

LossNaN == [kind |-> "nan", v |-> 0]

\* model/spectrum_best.pth: missing, or written by an earlier run of the script.
NoCheckpoint == [exists |-> FALSE, from |-> "none", epoch |-> 0, val_loss |-> LossInf]

EarlierCheckpoint == [exists |-> TRUE, from |-> "earlier run", epoch |-> 1, val_loss |-> Loss(0)]

\* Before train_model is called.
NoTrain == [pc |-> "idle", epochs |-> 0, epoch |-> 0, best_val_loss |-> LossInf,
            patience_counter |-> 0, train_losses |-> 0, val_losses |-> 0,
            val_loss |-> LossInf, lowest |-> [epoch |-> 0, val_loss |-> LossInf],
            checkpoint |-> NoCheckpoint, loaded |-> NoCheckpoint]

\* No run yet: the generator is not seeded, no partition was made.
NoSplit == [pc |-> "idle", rng |-> [seed |-> 0, drawn |-> 0], shuffle |-> <<>>,
            data |-> [n_samples |-> 0, cols |-> 0], history |-> <<>>]

NoPlsCall == [called |-> FALSE, n_samples |-> 0, n_features |-> 0,
              requested |-> 0, n_components |-> 0]

\* The files of the model directory before the first export, nothing read yet.
Files == {"preprocessing_params.json", "model_info.json"}

NoFile == [exists |-> FALSE, content |-> <<>>]

NoIo == [pc |-> "idle", writing |-> "preprocessing_params.json", run_no |-> 0,
         files |-> [name \in Files |-> NoFile],
         seen |-> [read |-> FALSE, name |-> "preprocessing_params.json", content |-> <<>>]]

NoScaleCall == [called |-> FALSE, properties |-> <<>>, scaled_properties |-> <<>>,
                mean_ |-> <<>>, scale_ |-> <<>>]

(***************************************************************************)
(* Helpers on sequences (numpy arrays are 0-based, sequences 1-based: the  *)
(* element at position p of a sequence models array index p - 1).          *)
(***************************************************************************)
Min(a, b) == IF a <= b THEN a ELSE b

Max(a, b) == IF a >= b THEN a ELSE b

Range(s) == {s[p] : p \in DOMAIN s}

\* The permutations of 1..n, as sequences.
Perms(n) == {f \in [1..n -> 1..n] : \A a, b \in 1..n : f[a] = f[b] => a = b}

\* s[::-1]
Reverse(s) == [p \in 1..Len(s) |-> s[Len(s) + 1 - p]]

\* s[:k] for k >= 0: the first k elements, all of s when k exceeds its length.
Take(s, k) == [p \in 1..Min(k, Len(s)) |-> s[p]]

\* np.sort of a sequence of integers: ascending, duplicates kept.  The element
\* at position p goes to the place given by the number of elements that are
\* smaller, or equal and earlier.
SortAsc(s) ==
    LET n       == Len(s)
        Rank(p) == Cardinality({q \in 1..n : s[q] < s[p] \/ (s[q] = s[p] /\ q < p)})
        ranked  == {<<Rank(p), p>> : p \in 1..n}
    IN [r \in 1..n |-> s[CHOOSE p \in 1..n : <<r - 1, p>> \in ranked]]

(***************************************************************************)
(* select_features_vip.  The VIP scores are what compute_vip_scores        *)
(* returned for the matrix: one score per feature column.  np.argsort      *)
(* orders equal scores in an order numpy does not specify: tie is the      *)
(* order it happens to use, a permutation ranking the positions.           *)
(***************************************************************************)
ArgsortBefore(vip, tie, a, b) ==
    \/ vip[a] < vip[b]
    \/ vip[a] = vip[b] /\ tie[a] < tie[b]

\* np.argsort(vip): the 0-based indices in ascending order of score.  The
\* position a goes to the place given by the number of positions before it.
Argsort(vip, tie) ==
    LET n       == Len(vip)
        Rank(a) == Cardinality({b \in 1..n : ArgsortBefore(vip, tie, b, a)})
        ranked  == {<<Rank(a), a>> : a \in 1..n}
    IN [r \in 1..n |-> (CHOOSE a \in 1..n : <<r - 1, a>> \in ranked) - 1]

\* The function without its final np.sort, and with the slice one short.
SelectFeaturesVipUnsorted(n_features, vip, tie, top_k) ==
    Take(Reverse(Argsort(vip, tie)), Min(top_k, n_features))

SelectFeaturesVipOneShort(n_features, vip, tie, top_k) ==
    SortAsc(Take(Reverse(Argsort(vip, tie)), Min(top_k, n_features) - 1))

\* The function without the reversal [::-1]: the slice keeps the lowest scores.
SelectFeaturesVipLowest(n_features, vip, tie, top_k) ==
    SortAsc(Take(Argsort(vip, tie), Min(top_k, n_features)))

\* top_k = min(top_k, X.shape[1]); argsort descending; slice; sort ascending.
select_features_vip(n_features, vip, tie, top_k) ==
    LET k            == Min(top_k, n_features)
        selected_idx == Take(Reverse(Argsort(vip, tie)), k)
    IN SortAsc(selected_idx)

\* ------------------------------------------------------------------ bounds
MaxFeatures == 3    \* feature columns of a matrix given to select_features_vip
MaxTopK == 4        \* requested top_k
MaxScore == 2       \* VIP scores are drawn from 0..MaxScore, so ties happen

(***************************************************************************)
(* main, in both variants.  A matrix is kept as its shape and the chain of *)
(* transforms that produced it from the raw spectra; a fitted vector or    *)
(* matrix (a mean, a loading matrix) as its shape and the matrix it was    *)
(* fitted on.  The numbers themselves are the libraries' (scikit-learn's   *)
(* PCA, PLSRegression and StandardScaler), which the model does not        *)
(* compute: two values are the same value when they were computed the same *)
(* way from the same data.                                                 *)
(***************************************************************************)
TopKRequested == 100    \* top_k = min(100, snv_spectra.shape[1])
PcaRequested == 32      \* pca_components = min(32, snv_feat.shape[1])
BatchSize == 16         \* create_data_loaders(..., batch_size=16)
CvFolds == 3            \* GridSearchCV(..., cv=3, ...)

Matrix(rows, cols, chain) == [rows |-> rows, cols |-> cols, chain |-> chain]

\* The transforms of the chain.
SnvStep == [op |-> "snv"]

GatherStep(idx) == [op |-> "gather", idx |-> idx]

ProjectStep(mean, components) ==
    [op |-> "project", mean |-> mean, components |-> components]

StandardizeStep(mean, scale) == [op |-> "standardize", mean |-> mean, scale |-> scale]

\* load_data: the model keeps the shapes of what was read.
LoadedSpectra(data) == Matrix(data.n_samples, data.n_features, <<>>)

\* apply_snv on the whole matrix: the shape is kept.
SnvSpectra(spectra) == Matrix(spectra.rows, spectra.cols, <<SnvStep>>)

\* StandardScaler().fit(properties): one mean and one scale per column.
FitStandardScaler(m) ==
    [mean_  |-> [len |-> m.cols, of |-> "mean", fit |-> m],
     scale_ |-> [len |-> m.cols, of |-> "scale", fit |-> m]]

\* snv_spectra[:, selected_idx]
Gather(m, idx) == Matrix(m.rows, Len(idx), Append(m.chain, GatherStep(idx)))

\* pca_components = min(32, snv_feat.shape[1]) without the min.
PcaComponentsUnclamped(snv_feat) == snv_feat.cols

\* pca_components = min(32, snv_feat.shape[1])
PcaComponents(snv_feat) == Min(PcaRequested, snv_feat.cols)

\* PCA(n_components=k).fit raises ValueError unless k <= min(n_samples, n_features).
PcaFitRaises(k, m) == k > Min(m.rows, m.cols)

\* The fitted PCA: mean_ has one entry per column of the matrix it was fitted
\* on, components_ is n_components x columns.
FitPca(k, m) ==
    [mean_         |-> [len |-> m.cols, of |-> "mean", fit |-> m],
     components_   |-> [rows |-> k, cols |-> m.cols, of |-> "components", fit |-> m],
     n_components_ |-> k]

\* pca.fit_transform(m) for the fitted pca: (m - mean_) times components_ transposed.
PcaTransform(pca, m) ==
    Matrix(m.rows, pca.components_.rows,
           Append(m.chain, ProjectStep(pca.mean_, pca.components_)))

\* pca=None: no PCA object is passed.
NoPca == [mean_ |-> <<>>, components_ |-> <<>>, n_components_ |-> 0]

\* The column statistics of snv_spectra written for verification.
SpectrumStats(snv_spectra) ==
    [mean |-> [len |-> snv_spectra.cols, of |-> "mean", fit |-> snv_spectra],
     std  |-> [len |-> snv_spectra.cols, of |-> "std", fit |-> snv_spectra]]

\* The document with the pca block taken from the statistics of snv_spectra.
SavePreprocessingParamsSpectrumMean(snv_spectra, property_scaler, pca) ==
    [spectrum_stats     |-> SpectrumStats(snv_spectra),
     property_scaler    |-> [mean |-> property_scaler.mean_, scale |-> property_scaler.scale_],
     preprocessing_type |-> "SNV",
     description        |-> "SNV, StandardScaler",
     pca                |-> [mean         |-> SpectrumStats(snv_spectra).mean,
                             components   |-> pca.components_,
                             n_components |-> pca.n_components_]]

\* The document with a pca block whatever is passed.
SavePreprocessingParamsAlwaysPca(snv_spectra, property_scaler, pca) ==
    [spectrum_stats     |-> SpectrumStats(snv_spectra),
     property_scaler    |-> [mean |-> property_scaler.mean_, scale |-> property_scaler.scale_],
     preprocessing_type |-> "SNV",
     description        |-> "SNV, StandardScaler",
     pca                |-> [mean         |-> pca.mean_,
                             components   |-> pca.components_,
                             n_components |-> pca.n_components_]]

\* save_preprocessing_params: the document written to preprocessing_params.json,
\* a record whose fields are the keys of the JSON object.  The pca key is
\* added only if pca is not None.
save_preprocessing_params(snv_spectra, property_scaler, pca) ==
    IF pca # NoPca
    THEN [spectrum_stats     |-> SpectrumStats(snv_spectra),
          property_scaler    |-> [mean  |-> property_scaler.mean_,
                                  scale |-> property_scaler.scale_],
          preprocessing_type |-> "SNV",
          description        |-> "SNV, StandardScaler",
          pca                |-> [mean         |-> pca.mean_,
                                  components   |-> pca.components_,
                                  n_components |-> pca.n_components_]]
    ELSE [spectrum_stats     |-> SpectrumStats(snv_spectra),
          property_scaler    |-> [mean  |-> property_scaler.mean_,
                                  scale |-> property_scaler.scale_],
          preprocessing_type |-> "SNV",
          description        |-> "SNV, StandardScaler"]

\* 'pca' in preprocessing_params
HasPca(doc) == "pca" \in DOMAIN doc

\* save_model_info: the document written to model_info.json.
save_model_info(input_size, output_size, property_labels, wavelength_labels, selected_feature_indices) ==
    [input_size               |-> input_size,
     output_size              |-> output_size,
     property_labels          |-> property_labels,
     wavelength_labels        |-> wavelength_labels,
     selected_feature_indices |-> selected_feature_indices]

\* int(train_ratio * n) for train_ratio = 0.8
TrainSize(n) == (8 * n) \div 10

\* The row subset a split keeps: rows change, the transforms do not.
Rows(m, n) == Matrix(n, m.cols, m.chain)

\* The network variant: the loaders hand the PCA features to the network.
\* A last training batch of one sample makes BatchNorm1d raise in training
\* mode; no training batch at all divides by len(train_loader) = 0.
DnnTrainRaises(n_samples) ==
    \/ TrainSize(n_samples) = 0
    \/ TrainSize(n_samples) % BatchSize = 1

DnnPredictorInput(snv_feat_pca) == Rows(snv_feat_pca, TrainSize(snv_feat_pca.rows))

\* The SVR variant: X_train is standardised by a StandardScaler fitted on it
\* before the grid search, which raises with fewer training rows than folds.
SvrTrainRaises(n_samples) == TrainSize(n_samples) < CvFolds

SvrPredictorInput(snv_feat_pca) ==
    LET X_train        == Rows(snv_feat_pca, TrainSize(snv_feat_pca.rows))
        feature_scaler == FitStandardScaler(X_train)
    IN Matrix(X_train.rows, X_train.cols,
              Append(X_train.chain,
                     StandardizeStep(feature_scaler.mean_, feature_scaler.scale_)))

\* ------------------------------------------------------------------ bounds
MaxSamples == 4     \* samples of a small data set (at least 2: PLS needs two)

Variants == {"dnn", "svr"}

\* The data sets a run may find in data/: small ones, and one just above each of
\* the two requested sizes.
SampleCounts == (2..MaxSamples) \cup {PcaRequested + 1}

FeatureCounts == (1..MaxFeatures) \cup {PcaRequested + 1, TopKRequested + 1}

Datasets == [n_samples : SampleCounts, n_features : FeatureCounts, n_targets : {1}]

\* The scores compute_vip_scores returns for n columns (with ties as soon as
\* n > MaxScore + 1), and the orders np.argsort may give tied scores.
PipelineVipScores(n) == {[j \in 1..n |-> j % (MaxScore + 1)]}

PipelineTies(n) == {[j \in 1..n |-> j], [j \in 1..n |-> n + 1 - j]}

NoMatrix == Matrix(0, 0, <<>>)

NoDoc == [written |-> FALSE]

NoRun == [pc |-> "idle", data |-> [n_samples |-> 0, n_features |-> 0, n_targets |-> 0],
          snv_spectra |-> NoMatrix, property_scaler |-> [mean_ |-> <<>>, scale_ |-> <<>>],
          selected_idx |-> <<>>, snv_feat |-> NoMatrix,
          pca_components |-> 0, pca |-> NoPca, snv_feat_pca |-> NoMatrix,
          predictor_input |-> NoMatrix, raised |-> "none"]

NoDisk == [preprocessing_params |-> NoDoc, model_info |-> NoDoc]


InitVip ==
    /\ vip_call = NoVipCall
    /\ snv_call = NoSnvCall
    /\ variant = "dnn"
    /\ run = NoRun
    /\ disk = NoDisk
    /\ scale_call = NoScaleCall
    /\ save_call = NoSaveCall
    /\ io = NoIo
    /\ pls_call = NoPlsCall
    /\ split = NoSplit
    /\ train = NoTrain

SelectFeaturesVipCall ==
    /\ ~vip_call.called
    /\ \E n \in 1..MaxFeatures, top_k \in 0..MaxTopK :
         \E vip \in [1..n -> 0..MaxScore], tie \in Perms(n) :
            vip_call' = [called |-> TRUE, n_features |-> n, vip |-> vip,
                         tie |-> tie, top_k |-> top_k,
                         selected_idx |-> select_features_vip(n, vip, tie, top_k)]
    /\ UNCHANGED <<snv_call, variant, run, disk, scale_call, save_call, io, pls_call, split, train>>

NextVip == SelectFeaturesVipCall

SpecVip == InitVip /\ [][NextVip]_vars

\* C1: for every matrix with n_features columns and every top_k >= 0 the
\* returned index list has length min(top_k, n_features), its entries are
\* pairwise distinct, lie in [0, n_features) and are strictly ascending,
\* whatever the VIP scores and the order of tied scores.
VipIndexListWellFormed ==
    vip_call.called =>
        LET idx == vip_call.selected_idx
            n   == vip_call.n_features
        IN /\ Len(idx) = Min(vip_call.top_k, n)
           /\ \A p \in DOMAIN idx : idx[p] >= 0 /\ idx[p] < n
           /\ \A p, q \in DOMAIN idx : p # q => idx[p] # idx[q]
           /\ \A p \in 1..(Len(idx) - 1) : idx[p] < idx[p + 1]

\* A call with tied scores whose importance ranking is not ascending by
\* index (the top feature is the last column) and that keeps two columns.
VipTiedScoresSelected ==
    /\ vip_call.called
    /\ vip_call.n_features = 3
    /\ vip_call.top_k = 2
    /\ vip_call.vip = <<1, 1, 2>>
    /\ vip_call.selected_idx = <<1, 2>>

\* C8: when top_k >= the number of feature columns n, the call returns
\* exactly 0, 1, ..., n-1 in ascending order, for every score vector.
VipTopKAtLeastNReturnsAll ==
    (vip_call.called /\ vip_call.top_k >= vip_call.n_features) =>
        vip_call.selected_idx = [p \in 1..vip_call.n_features |-> p - 1]

\* A call asked for more columns than the matrix has.
VipTopKAboveN ==
    /\ vip_call.called
    /\ vip_call.top_k > vip_call.n_features
    /\ vip_call.n_features >= 2
    /\ Len(vip_call.selected_idx) = vip_call.n_features

\* C15: each returned index has a VIP score greater than or equal to the
\* score of every index not returned, for every score vector and top_k, and
\* the final ascending sort keeps the set of indices the slice selected.
VipSelectsByImportance ==
    vip_call.called =>
        LET selected == Range(vip_call.selected_idx)
            rest     == (0..(vip_call.n_features - 1)) \ selected
            sliced   == SelectFeaturesVipUnsorted(vip_call.n_features, vip_call.vip,
                                                  vip_call.tie, vip_call.top_k)
        IN /\ \A a \in selected, b \in rest : vip_call.vip[a + 1] >= vip_call.vip[b + 1]
           /\ selected = Range(sliced)
           /\ Len(vip_call.selected_idx) = Len(sliced)

\* A call whose two most important columns are the first and the last, the
\* first being the top one: the slice is <<0, 2>> only after the sort.
VipImportantColumnsApart ==
    /\ vip_call.called
    /\ vip_call.vip = <<2, 0, 1>>
    /\ vip_call.top_k = 2
    /\ vip_call.selected_idx = <<0, 2>>

(***************************************************************************)
(* apply_snv.  Spectral intensities are integers in units of 1e-9, so that *)
(* a row can have a standard deviation above, at and below the guard 1e-8  *)
(* without being constant.  Reals that are not rational are kept exact:    *)
(*   the mean of a row of N values is RowSum / N;                          *)
(*   sample - mean_val is Deviations(sample)[j] / N;                       *)
(*   np.std is sqrt(mean(abs(x - mean)^2)) = sqrt(sq_num / sq_den).        *)
(***************************************************************************)
RECURSIVE SeqSum(_)
SeqSum(s) == IF s = <<>> THEN 0 ELSE s[1] + SeqSum(Tail(s))

SumSq(s) == SeqSum([p \in DOMAIN s |-> s[p] * s[p]])

\* 1e-8 in the model's unit of 1e-9.
SnvEps == 10

\* np.mean(sample) = num / den.
np_mean(sample) == [num |-> SeqSum(sample), den |-> Len(sample)]

\* sample - mean_val, each element times mean_val.den.
Deviations(sample, mean_val) ==
    [j \in DOMAIN sample |-> mean_val.den * sample[j] - mean_val.num]

\* np.std(sample): the population standard deviation, as the square root of
\* sq_num / sq_den (the mean of the squared deviations from the mean).
np_std(sample) ==
    LET m == np_mean(sample)
    IN [sq_num |-> SumSq(Deviations(sample, m)),
        sq_den |-> m.den * m.den * Len(sample)]

\* The guard with >= for >.
StdAtLeastEps(std_val) == std_val.sq_num >= SnvEps * SnvEps * std_val.sq_den

\* std_val > 1e-8 (both sides are non-negative: compare the squares).
StdAboveEps(std_val) == std_val.sq_num > SnvEps * SnvEps * std_val.sq_den

\* The row with the mean and deviation taken over the whole matrix.
SnvRowAtWholeMatrix(spectra, i) ==
    LET RECURSIVE Flat(_)
        Flat(m) == IF m = <<>> THEN <<>> ELSE m[1] \o Flat(Tail(m))
        all      == Flat(spectra)
        mean_val == np_mean(all)
        std_val  == np_std(all)
    IN [centered |-> Deviations(spectra[i], mean_val), over |-> mean_val.den,
        divided |-> StdAboveEps(std_val),
        std |-> IF StdAboveEps(std_val) THEN std_val ELSE [sq_num |-> 1, sq_den |-> 1]]

\* One iteration of the loop: output row i is (centered[j] / over) / sqrt(std),
\* divided telling whether the division by std_val was performed.
SnvRowAt(spectra, i) ==
    LET sample   == spectra[i]
        mean_val == np_mean(sample)
        std_val  == np_std(sample)
    IN IF StdAboveEps(std_val)
       THEN [centered |-> Deviations(sample, mean_val), over |-> mean_val.den,
             divided |-> TRUE, std |-> std_val]
       ELSE [centered |-> Deviations(sample, mean_val), over |-> mean_val.den,
             divided |-> FALSE, std |-> [sq_num |-> 1, sq_den |-> 1]]

\* apply_snv: a new array of the argument's shape, filled row by row; the
\* argument is only read.
apply_snv(spectra) ==
    [spectra     |-> spectra,
     snv_spectra |-> [i \in DOMAIN spectra |-> SnvRowAt(spectra, i)]]

\* ------------------------------------------------------------------ bounds
MaxRows == 2        \* samples of a matrix given to apply_snv
MaxCols == 2        \* wavelengths of a matrix given to apply_snv

\* Intensities in units of 1e-9: rows (0, 30), (0, 20) and (20, 30) have the
\* standard deviations 1.5e-8, 1e-8 and 5e-9.
SnvValues == {0, 20, 30}

SnvMatrices ==
    UNION {[1..r -> [1..c -> SnvValues]] : r \in 1..MaxRows, c \in 1..MaxCols}

InitSnv ==
    /\ snv_call = NoSnvCall
    /\ vip_call = NoVipCall
    /\ variant = "dnn"
    /\ run = NoRun
    /\ disk = NoDisk
    /\ scale_call = NoScaleCall
    /\ save_call = NoSaveCall
    /\ io = NoIo
    /\ pls_call = NoPlsCall
    /\ split = NoSplit
    /\ train = NoTrain

ApplySnvCall ==
    /\ ~snv_call.called
    /\ \E m \in SnvMatrices :
         LET r == apply_snv(m)
         IN snv_call' = [called |-> TRUE, arg |-> m, spectra |-> r.spectra,
                         snv_spectra |-> r.snv_spectra]
    /\ UNCHANGED <<vip_call, variant, run, disk, scale_call, save_call, io, pls_call, split, train>>

NextSnv == ApplySnvCall

SpecSnv == InitSnv /\ [][NextSnv]_vars

\* N^2 times the population variance of a row of N values: N * sum(x^2) - sum(x)^2.
VarTimesN2(sample) == Len(sample) * SumSq(sample) - SeqSum(sample) * SeqSum(sample)

\* sigma > 1e-8 for a row of N values, from the variance: N^2 sigma^2 > N^2 eps^2.
SigmaAboveEps(sample) ==
    VarTimesN2(sample) > SnvEps * SnvEps * Len(sample) * Len(sample)

\* The mean of an output row is 0, and its population standard deviation is 1:
\* mean((centered / over)^2) = std^2.
OutputMeanZero(out) == SeqSum(out.centered) = 0

OutputStdOne(out) ==
    SumSq(out.centered) * out.std.sq_den
        = Len(out.centered) * out.over * out.over * out.std.sq_num

\* C9: apply_snv takes exactly one of two branches per row: a row with
\* sigma > 1e-8 is output as (x - mean) / sigma, so its mean is 0 and its
\* standard deviation 1; a row with sigma <= 1e-8 is output as x - mean only,
\* and no division by sigma is performed on it.
SnvTwoBranches ==
    snv_call.called =>
        \A i \in DOMAIN snv_call.arg :
            LET sample == snv_call.arg[i]
                out    == snv_call.snv_spectra[i]
                n      == Len(sample)
            IN /\ out.over = n
               /\ out.centered = [j \in 1..n |-> n * sample[j] - SeqSum(sample)]
               /\ SigmaAboveEps(sample) =>
                     /\ out.divided
                     /\ out.std.sq_num * n * n = VarTimesN2(sample) * out.std.sq_den
                     /\ OutputMeanZero(out)
                     /\ OutputStdOne(out)
               /\ ~SigmaAboveEps(sample) =>
                     /\ ~out.divided
                     /\ out.std = [sq_num |-> 1, sq_den |-> 1]
                     /\ OutputMeanZero(out)

\* A call whose matrix has a row scaled by its deviation and a row that is
\* not constant and is only centered (sigma = 5e-9).
SnvBothBranchesTaken ==
    /\ snv_call.called
    /\ snv_call.arg = <<(<<0, 30>>), (<<20, 30>>)>>
    /\ snv_call.snv_spectra[1].divided
    /\ ~snv_call.snv_spectra[2].divided
    /\ snv_call.snv_spectra[2].centered = <<-10, 10>>

\* C10: output row i is a function of input row i alone (it is the row the
\* call returns for the one-row matrix holding that row, whatever the other
\* rows are and wherever the row stands), the argument is not modified, and
\* the output has the argument's shape.
SnvRowIndependent ==
    snv_call.called =>
        /\ snv_call.spectra = snv_call.arg
        /\ DOMAIN snv_call.snv_spectra = DOMAIN snv_call.arg
        /\ \A i \in DOMAIN snv_call.arg :
              /\ Len(snv_call.snv_spectra[i].centered) = Len(snv_call.arg[i])
              /\ snv_call.snv_spectra[i]
                    = apply_snv(<<snv_call.arg[i]>>).snv_spectra[1]

\* A call on two rows of different deviation: the second row is output as it
\* is when it is the only row of the matrix.
SnvRowAmongOthers ==
    /\ snv_call.called
    /\ snv_call.arg = <<(<<0, 20>>), (<<0, 30>>)>>
    /\ snv_call.snv_spectra[2].divided
    /\ snv_call.snv_spectra[2].centered = <<-30, 30>>
    /\ ~snv_call.snv_spectra[1].divided

Init ==
    /\ variant \in Variants
    /\ run = NoRun
    /\ disk = NoDisk
    /\ vip_call = NoVipCall
    /\ snv_call = NoSnvCall
    /\ scale_call = NoScaleCall
    /\ save_call = NoSaveCall
    /\ io = NoIo
    /\ pls_call = NoPlsCall
    /\ split = NoSplit
    /\ train = NoTrain

Written(doc) == [written |-> TRUE, doc |-> doc]

\* main up to the PCA fit: load_data, apply_snv, apply_property_scaling,
\* select_features_vip, the gather and the choice of pca_components.
StartRun ==
    /\ run.pc = "idle"
    /\ \E n_features \in FeatureCounts :
         \E vip \in PipelineVipScores(n_features), tie \in PipelineTies(n_features) :
            LET top_k        == Min(TopKRequested, n_features)
                selected_idx == select_features_vip(n_features, vip, tie, top_k)
            IN \E data \in {d \in Datasets : d.n_features = n_features} :
                  LET spectra         == LoadedSpectra(data)
                      properties      == Matrix(data.n_samples, data.n_targets, <<>>)
                      snv_spectra     == SnvSpectra(spectra)
                      property_scaler == FitStandardScaler(properties)
                      snv_feat        == Gather(snv_spectra, selected_idx)
                  IN run' = [NoRun EXCEPT !.pc = "pca", !.data = data,
                                          !.snv_spectra = snv_spectra,
                                          !.property_scaler = property_scaler,
                                          !.selected_idx = selected_idx,
                                          !.snv_feat = snv_feat,
                                          !.pca_components = PcaComponents(snv_feat)]
    /\ UNCHANGED <<variant, disk, vip_call, snv_call, scale_call, save_call, io, pls_call, split, train>>

\* pca = PCA(n_components=pca_components); pca.fit_transform(snv_feat) raises.
PcaRaises ==
    /\ run.pc = "pca"
    /\ PcaFitRaises(run.pca_components, run.snv_feat)
    /\ run' = [run EXCEPT !.pc = "failed", !.raised = "PCA"]
    /\ UNCHANGED <<variant, disk, vip_call, snv_call, scale_call, save_call, io, pls_call, split, train>>

\* pca.fit_transform(snv_feat), then save_preprocessing_params(..., pca=pca).
PcaFitAndSave ==
    /\ run.pc = "pca"
    /\ ~PcaFitRaises(run.pca_components, run.snv_feat)
    /\ LET pca == FitPca(run.pca_components, run.snv_feat)
       IN /\ run' = [run EXCEPT !.pc = "train", !.pca = pca,
                                !.snv_feat_pca = PcaTransform(pca, run.snv_feat)]
          /\ disk' = [disk EXCEPT !.preprocessing_params =
                        Written(save_preprocessing_params(run.snv_spectra,
                                                          run.property_scaler, pca))]
    /\ UNCHANGED <<variant, vip_call, snv_call, scale_call, save_call, io, pls_call, split, train>>

TrainRaises ==
    IF variant = "dnn" THEN DnnTrainRaises(run.snv_feat_pca.rows)
                       ELSE SvrTrainRaises(run.snv_feat_pca.rows)

\* The split and the fit of the predictor raise: main ends there.
TrainingRaises ==
    /\ run.pc = "train"
    /\ TrainRaises
    /\ run' = [run EXCEPT !.pc = "failed", !.raised = "train"]
    /\ UNCHANGED <<variant, disk, vip_call, snv_call, scale_call, save_call, io, pls_call, split, train>>

\* The split, the fit of the predictor and its evaluation.
Train ==
    /\ run.pc = "train"
    /\ ~TrainRaises
    /\ run' = [run EXCEPT !.pc = "export",
                          !.predictor_input =
                              IF variant = "dnn" THEN DnnPredictorInput(run.snv_feat_pca)
                                                 ELSE SvrPredictorInput(run.snv_feat_pca)]
    /\ UNCHANGED <<variant, disk, vip_call, snv_call, scale_call, save_call, io, pls_call, split, train>>

\* input_size = snv_feat_pca.shape[1]; output_size = scaled_properties.shape[1];
\* save_model_info(..., selected_idx.tolist()).
ModelInfoOf(r) ==
    save_model_info(r.snv_feat_pca.cols, r.data.n_targets, r.data.n_targets,
                    r.data.n_features, r.selected_idx)

\* The exports after training, the last of which is model_info.json.
SaveModelInfo ==
    /\ run.pc = "export"
    /\ run' = [run EXCEPT !.pc = "done"]
    /\ disk' = [disk EXCEPT !.model_info = Written(ModelInfoOf(run))]
    /\ UNCHANGED <<variant, vip_call, snv_call, scale_call, save_call, io, pls_call, split, train>>

\* The process ends, after main returned or raised: its locals are gone, the
\* documents stay, and the script may be run again.
ProcessExit ==
    /\ run.pc \in {"done", "failed"}
    /\ run' = NoRun
    /\ UNCHANGED <<variant, disk, vip_call, snv_call, scale_call, save_call, io, pls_call, split, train>>

Next ==
    \/ StartRun
    \/ ProcessExit
    \/ PcaRaises
    \/ PcaFitAndSave
    \/ TrainingRaises
    \/ Train
    \/ SaveModelInfo

Spec == Init /\ [][Next]_vars

(***************************************************************************)
(* The documents a finished run leaves, and the consumer contract: SNV per  *)
(* row, gather at selected_feature_indices, then, when the pca block is    *)
(* present, subtract pca.mean and multiply by pca.components transposed.    *)
(***************************************************************************)
ParamsDoc == disk.preprocessing_params.doc

InfoDoc == disk.model_info.doc

BothWritten == disk.preprocessing_params.written /\ disk.model_info.written

ReplayChain(pp, mi) ==
    IF HasPca(pp)
    THEN <<SnvStep, GatherStep(mi.selected_feature_indices),
           ProjectStep(pp.pca.mean, pp.pca.components)>>
    ELSE <<SnvStep, GatherStep(mi.selected_feature_indices)>>

\* C2: in both variants the feature vectors the predictor is fitted on are
\* exactly what the consumer contract replays from the two documents, with no
\* further transform between the PCA projection and the predictor.
PredictorFittedOnReplayedVector ==
    run.pc = "done" =>
        run.predictor_input.chain = ReplayChain(ParamsDoc, InfoDoc)

\* C3: the input_size of model_info.json equals the length of pca.mean in
\* preprocessing_params.json (the length of selected_feature_indices when
\* there is no pca block) after every completed run.
InputSizeEqualsPcaMeanLength ==
    run.pc = "done" =>
        InfoDoc.input_size = IF HasPca(ParamsDoc)
                             THEN ParamsDoc.pca.mean.len
                             ELSE Len(InfoDoc.selected_feature_indices)

\* C3 as amended: after every completed run the pca block is present and
\* input_size is the length of pca.mean clamped to the 32 requested
\* components.
InputSizeIsClampedPcaMeanLength ==
    run.pc = "done" =>
        /\ HasPca(ParamsDoc)
        /\ InfoDoc.input_size = Min(PcaRequested, ParamsDoc.pca.mean.len)

\* A completed run that selected more than 32 columns.
CompletedRunAboveRequestedPca ==
    /\ run.pc = "done"
    /\ HasPca(ParamsDoc)
    /\ ParamsDoc.pca.mean.len = PcaRequested + 1
    /\ InfoDoc.input_size = PcaRequested

\* C4: in the documents of a completed run, input_size equals
\* pca.n_components and the number of rows of pca.components, and the length
\* of pca.mean equals the number of columns of pca.components and the length
\* of selected_feature_indices, the list the columns were gathered with
\* before the PCA fit.
ExportedSizesAgree ==
    run.pc = "done" =>
        /\ InfoDoc.input_size = ParamsDoc.pca.n_components
        /\ InfoDoc.input_size = ParamsDoc.pca.components.rows
        /\ ParamsDoc.pca.mean.len = ParamsDoc.pca.components.cols
        /\ ParamsDoc.pca.mean.len = Len(InfoDoc.selected_feature_indices)
        /\ ParamsDoc.pca.mean.fit.chain
              = <<SnvStep, GatherStep(InfoDoc.selected_feature_indices)>>
        /\ ParamsDoc.pca.components.fit = ParamsDoc.pca.mean.fit

\* A completed run on more than 100 wavelengths: 100 are kept, 32 components.
CompletedRunAboveRequestedTopK ==
    /\ run.pc = "done"
    /\ run.data.n_features = TopKRequested + 1
    /\ Len(InfoDoc.selected_feature_indices) = TopKRequested
    /\ ParamsDoc.pca.mean.len = TopKRequested
    /\ InfoDoc.input_size = PcaRequested

\* C5: whenever no run is in progress (finished or stopped with an error),
\* the two documents on disk come from the same fit: the length of
\* selected_feature_indices is the length of pca.mean, and input_size is
\* pca.n_components.
DocsOnDiskFromSameFit ==
    (run.pc \in {"idle", "done", "failed"} /\ BothWritten) =>
        /\ Len(InfoDoc.selected_feature_indices) = ParamsDoc.pca.mean.len
        /\ InfoDoc.input_size = ParamsDoc.pca.n_components

\* C6: for the rows of the VIP-selected training subset, replaying the
\* exported PCA parameters yields exactly the rows pca.fit_transform
\* produced, which are the rows the predictor was trained on.
PcaReplayYieldsTrainingRows ==
    run.pc \in {"export", "done"} =>
        LET replayed == Append(run.snv_feat.chain,
                               ProjectStep(ParamsDoc.pca.mean, ParamsDoc.pca.components))
        IN /\ replayed = run.snv_feat_pca.chain
           /\ replayed = run.predictor_input.chain

\* C7: the PCA fit is never invoked with a count above
\* min(n_samples, subset_width), and it raises no error.
PcaCountClampedBeforeFit ==
    /\ run.pc = "pca" =>
          run.pca_components <= Min(run.snv_feat.rows, run.snv_feat.cols)
    /\ run.raised # "PCA"

(***************************************************************************)
(* apply_property_scaling and the exported inverse.  Properties are        *)
(* integers; StandardScaler works per column.  A number is kept exact as   *)
(*   (num / den) * sigma^pow                                               *)
(* where sigma is the population standard deviation of the column whose    *)
(* variance is rad (a fraction), and nan marks the result of 0 / 0.        *)
(***************************************************************************)
Rational(num, den) == [nan |-> FALSE, num |-> num, den |-> den, pow |-> 0, rad |-> <<0, 1>>]

NaN == [nan |-> TRUE, num |-> 0, den |-> 1, pow |-> 0, rad |-> <<0, 1>>]

\* properties[:, c] as a sequence.
Column(properties, c) == [i \in DOMAIN properties |-> properties[i][c]]

\* StandardScaler.mean_ of a column.
ScalerMean(col) == Rational(SeqSum(col), Len(col))

\* StandardScaler.var_ of a column, as a fraction <<numerator, denominator>>.
ScalerVar(col) ==
    LET m == np_mean(col)
    IN <<SumSq(Deviations(col, m)), m.den * m.den * Len(col)>>

\* sqrt(var_) kept as it is: a constant column gets the scale 0.
KeepZeroScale(col) ==
    LET v == ScalerVar(col)
    IN [nan |-> FALSE, num |-> IF v[1] = 0 THEN 0 ELSE 1, den |-> 1,
        pow |-> IF v[1] = 0 THEN 0 ELSE 1, rad |-> IF v[1] = 0 THEN <<0, 1>> ELSE v]

\* StandardScaler.scale_ of a column: sqrt(var_), with 1.0 where it is zero.
ScalerScale(col) ==
    LET v == ScalerVar(col)
    IN IF v[1] = 0 THEN Rational(1, 1)
       ELSE [nan |-> FALSE, num |-> 1, den |-> 1, pow |-> 1, rad |-> v]

\* (y - mean) / scale for an integer y.
ScalerTransform(y, mean, scale) ==
    LET dev == y * mean.den - mean.num
    IN IF scale.num = 0 THEN NaN
       ELSE IF dev = 0 THEN Rational(0, 1)
       ELSE [nan |-> FALSE, num |-> dev * scale.den, den |-> mean.den * scale.num,
             pow |-> 0 - scale.pow, rad |-> scale.rad]

\* x * scale + mean: the inverse a consumer applies with the exported mean
\* and scale (StandardScaler.inverse_transform computes the same).
InverseTransform(x, mean, scale) ==
    LET pow == IF x.num = 0 \/ scale.num = 0 THEN 0
               ELSE IF x.pow # 0 /\ scale.pow # 0 /\ x.rad # scale.rad THEN 2
               ELSE x.pow + scale.pow
        num == x.num * scale.num
        den == x.den * scale.den
    IN IF x.nan \/ scale.nan \/ mean.nan THEN NaN
       ELSE IF pow = 0
            THEN Rational(num * mean.den + mean.num * den, den * mean.den)
            ELSE [nan |-> FALSE, num |-> num, den |-> den, pow |-> pow, rad |-> scale.rad]

\* The number is the integer y.
IsInteger(x, y) == ~x.nan /\ x.pow = 0 /\ x.num = y * x.den

\* scaler = StandardScaler(); scaled_properties = scaler.fit_transform(properties)
apply_property_scaling(properties) ==
    LET cols   == 1..Len(properties[1])
        mean_  == [c \in cols |-> ScalerMean(Column(properties, c))]
        scale_ == [c \in cols |-> ScalerScale(Column(properties, c))]
    IN [scaled_properties |->
            [i \in DOMAIN properties |->
                [c \in cols |-> ScalerTransform(properties[i][c], mean_[c], scale_[c])]],
        mean_ |-> mean_, scale_ |-> scale_]

PropertyValues == {0, 1, 3}

PropertyMatrices ==
    UNION {[1..r -> [1..c -> PropertyValues]] : r \in 1..MaxRows, c \in 1..MaxCols}

InitScale ==
    /\ scale_call = NoScaleCall
    /\ vip_call = NoVipCall
    /\ snv_call = NoSnvCall
    /\ variant = "dnn"
    /\ run = NoRun
    /\ disk = NoDisk
    /\ save_call = NoSaveCall
    /\ io = NoIo
    /\ pls_call = NoPlsCall
    /\ split = NoSplit
    /\ train = NoTrain

ApplyPropertyScalingCall ==
    /\ ~scale_call.called
    /\ \E properties \in PropertyMatrices :
          LET r == apply_property_scaling(properties)
          IN scale_call' = [called |-> TRUE, properties |-> properties,
                            scaled_properties |-> r.scaled_properties,
                            mean_ |-> r.mean_, scale_ |-> r.scale_]
    /\ UNCHANGED <<vip_call, snv_call, variant, run, disk, save_call, io, pls_call, split, train>>

NextScale == ApplyPropertyScalingCall

SpecScale == InitScale /\ [][NextScale]_vars

\* C11: for every target matrix, a constant column included, the exported
\* inverse Y_scaled * scale + mean applied to the output of
\* apply_property_scaling recovers Y for every sample and every column.
ScalerRoundTrip ==
    scale_call.called =>
        \A i \in DOMAIN scale_call.properties :
            \A c \in DOMAIN scale_call.properties[i] :
                IsInteger(InverseTransform(scale_call.scaled_properties[i][c],
                                           scale_call.mean_[c], scale_call.scale_[c]),
                          scale_call.properties[i][c])

\* A call on a matrix with a constant column next to a varying one.
ScalerConstantColumn ==
    /\ scale_call.called
    /\ scale_call.properties = <<<<3, 0>>, <<3, 1>>>>
    /\ scale_call.scale_[1] = Rational(1, 1)
    /\ scale_call.scale_[2].pow = 1
    /\ scale_call.scaled_properties[2][2].pow = -1

(***************************************************************************)
(* save_preprocessing_params called on its own, with and without a PCA.    *)
(***************************************************************************)
\* The fitted PCA objects a caller may pass for snv_spectra: fitted on its
\* first j columns with k components.
FittedPcas(snv_spectra) ==
    {FitPca(k, Gather(snv_spectra, [p \in 1..j |-> p - 1])) :
        j \in 1..snv_spectra.cols, k \in 1..Min(snv_spectra.rows, snv_spectra.cols)}

SaveDatasets ==
    [n_samples : SampleCounts, n_features : 1..MaxFeatures, n_targets : 1..MaxCols]

InitSave ==
    /\ save_call = NoSaveCall
    /\ scale_call = NoScaleCall
    /\ vip_call = NoVipCall
    /\ snv_call = NoSnvCall
    /\ variant = "dnn"
    /\ run = NoRun
    /\ disk = NoDisk
    /\ io = NoIo
    /\ pls_call = NoPlsCall
    /\ split = NoSplit
    /\ train = NoTrain

SavePreprocessingParamsCall ==
    /\ ~save_call.called
    /\ \E data \in SaveDatasets :
          LET snv_spectra     == SnvSpectra(LoadedSpectra(data))
              property_scaler == FitStandardScaler(Matrix(data.n_samples, data.n_targets, <<>>))
          IN \E pca \in {NoPca} \cup FittedPcas(snv_spectra) :
                save_call' = [called |-> TRUE, snv_spectra |-> snv_spectra,
                              property_scaler |-> property_scaler, pca |-> pca,
                              doc |-> save_preprocessing_params(snv_spectra,
                                                                property_scaler, pca)]
    /\ UNCHANGED <<vip_call, snv_call, variant, run, disk, scale_call, io, pls_call, split, train>>

NextSave == SavePreprocessingParamsCall

SpecSave == InitSave /\ [][NextSave]_vars

\* C12: the document has a pca block, with the mean, the components and the
\* component count of the PCA passed, if and only if a fitted PCA is passed;
\* with pca=None it has no pca key; spectrum_stats, property_scaler and
\* preprocessing_type = "SNV" are present in both cases.
PcaBlockIffPcaPassed ==
    save_call.called =>
        LET doc == save_call.doc
        IN /\ HasPca(doc) <=> save_call.pca # NoPca
           /\ HasPca(doc) =>
                 /\ DOMAIN doc.pca = {"mean", "components", "n_components"}
                 /\ doc.pca.mean = save_call.pca.mean_
                 /\ doc.pca.components = save_call.pca.components_
                 /\ doc.pca.n_components = save_call.pca.n_components_
           /\ {"spectrum_stats", "property_scaler", "preprocessing_type"} \subseteq DOMAIN doc
           /\ doc.preprocessing_type = "SNV"
           /\ doc.property_scaler.mean = save_call.property_scaler.mean_
           /\ doc.property_scaler.scale = save_call.property_scaler.scale_

\* A call without a PCA: the document has the three blocks and no pca key.
SavedWithoutPca ==
    /\ save_call.called
    /\ save_call.pca = NoPca
    /\ save_call.snv_spectra.cols = 2
    /\ "pca" \notin DOMAIN save_call.doc
    /\ "spectrum_stats" \in DOMAIN save_call.doc

(***************************************************************************)
(* The writes of the two documents, as a reader of the files sees them.    *)
(* save_preprocessing_params and save_model_info both do                   *)
(*     with open(save_path, 'w') as f: json.dump(doc, f, indent=2)         *)
(* open(..., 'w') truncates the file in place; json.dump writes the text   *)
(* piece by piece into f's buffer, which reaches the file in chunks when   *)
(* it fills and, for the rest, when the with block closes f.               *)
(***************************************************************************)
MaxChunks == 3      \* chunks in which the text of a document reaches the file
MaxRuns == 2        \* exports in a behaviour

\* The text of the document of export run_no, as the chunks that reach the file.
Serialized(name, run_no) ==
    [p \in 1..MaxChunks |-> [doc |-> name, run_no |-> run_no, chunk |-> p]]

InitWrite ==
    /\ io = NoIo
    /\ save_call = NoSaveCall
    /\ scale_call = NoScaleCall
    /\ vip_call = NoVipCall
    /\ snv_call = NoSnvCall
    /\ variant = "dnn"
    /\ run = NoRun
    /\ disk = NoDisk
    /\ pls_call = NoPlsCall
    /\ split = NoSplit
    /\ train = NoTrain

\* main reaches save_preprocessing_params.
StartExport ==
    /\ io.pc = "idle"
    /\ io.run_no < MaxRuns
    /\ io' = [io EXCEPT !.pc = "open", !.run_no = @ + 1,
                        !.writing = "preprocessing_params.json"]
    /\ UNCHANGED <<vip_call, snv_call, variant, run, disk, scale_call, save_call, pls_call, split, train>>

\* open(save_path, 'w'): the file is created or truncated to length zero.
OpenTruncate ==
    /\ io.pc = "open"
    /\ io' = [io EXCEPT !.pc = "dump",
                        !.files[io.writing] = [exists |-> TRUE, content |-> <<>>]]
    /\ UNCHANGED <<vip_call, snv_call, variant, run, disk, scale_call, save_call, pls_call, split, train>>

\* json.dump fills the buffer: a chunk of the text reaches the file.
FlushChunk ==
    /\ io.pc = "dump"
    /\ Len(io.files[io.writing].content) < MaxChunks - 1
    /\ LET n == Len(io.files[io.writing].content)
       IN io' = [io EXCEPT !.files[io.writing].content =
                              Append(@, Serialized(io.writing, io.run_no)[n + 1])]
    /\ UNCHANGED <<vip_call, snv_call, variant, run, disk, scale_call, save_call, pls_call, split, train>>

\* The with block ends: the rest of the text reaches the file.  After
\* preprocessing_params.json main goes on to save_model_info.
CloseFile ==
    /\ io.pc = "dump"
    /\ Len(io.files[io.writing].content) = MaxChunks - 1
    /\ io' = [io EXCEPT !.files[io.writing].content =
                           Append(@, Serialized(io.writing, io.run_no)[MaxChunks]),
                        !.pc = IF io.writing = "preprocessing_params.json"
                               THEN "open" ELSE "idle",
                        !.writing = "model_info.json"]
    /\ UNCHANGED <<vip_call, snv_call, variant, run, disk, scale_call, save_call, pls_call, split, train>>

\* Another process opens one of the files and reads it.
ReaderOpens ==
    /\ \E name \in Files :
          /\ io.files[name].exists
          /\ io' = [io EXCEPT !.seen = [read |-> TRUE, name |-> name,
                                        content |-> io.files[name].content]]
    /\ UNCHANGED <<vip_call, snv_call, variant, run, disk, scale_call, save_call, pls_call, split, train>>

NextWrite ==
    \/ StartExport
    \/ OpenTruncate
    \/ FlushChunk
    \/ CloseFile
    \/ ReaderOpens

SpecWrite == InitWrite /\ [][NextWrite]_vars

\* C13: a reader that opens preprocessing_params.json or model_info.json at
\* any moment reads a complete document, the previous one or the new one,
\* never an empty or truncated one.
ReaderSeesCompleteDocument ==
    io.seen.read =>
        \E run_no \in 1..MaxRuns : io.seen.content = Serialized(io.seen.name, run_no)

(***************************************************************************)
(* compute_vip_scores: the component count handed to PLSRegression.        *)
(***************************************************************************)
\* The clamp with the sample count for the sample count minus one.
PlsComponentsBySamples(requested, n_samples, n_features) ==
    Max(1, Min(requested, Min(n_samples, n_features)))

\* n_components = max(1, min(n_components, min(X.shape[0]-1, X.shape[1])))
PlsComponents(requested, n_samples, n_features) ==
    Max(1, Min(requested, Min(n_samples - 1, n_features)))

MaxRequested == 10      \* requested PLS components (the callers ask for 10)

InitPls ==
    /\ pls_call = NoPlsCall
    /\ io = NoIo
    /\ save_call = NoSaveCall
    /\ scale_call = NoScaleCall
    /\ vip_call = NoVipCall
    /\ snv_call = NoSnvCall
    /\ variant = "dnn"
    /\ run = NoRun
    /\ disk = NoDisk
    /\ split = NoSplit
    /\ train = NoTrain

\* compute_vip_scores(X, Y, n_components) up to PLSRegression(n_components=...).
ComputeVipScoresCall ==
    /\ ~pls_call.called
    /\ \E n_samples \in 1..MaxSamples, n_features \in 1..MaxFeatures,
          requested \in 0..MaxRequested :
          pls_call' = [called |-> TRUE, n_samples |-> n_samples,
                       n_features |-> n_features, requested |-> requested,
                       n_components |-> PlsComponents(requested, n_samples, n_features)]
    /\ UNCHANGED <<vip_call, snv_call, variant, run, disk, scale_call, save_call, io, split, train>>

NextPls == ComputeVipScoresCall

SpecPls == InitPls /\ [][NextPls]_vars

\* C14: for every requested count and every matrix shape the count passed to
\* the PLS fit is at least 1 and at most min(n_samples - 1, n_features).
PlsCountWithinBounds ==
    pls_call.called =>
        /\ pls_call.n_components >= 1
        /\ pls_call.n_components <= Min(pls_call.n_samples - 1, pls_call.n_features)

\* C14 as amended: the count is at least 1; it is at most
\* min(n_samples - 1, n_features) and at most the requested count whenever
\* these are at least 1; for a single sample the count is 1, above
\* n_samples - 1 = 0.
PlsCountClampedFromTwoSamples ==
    pls_call.called =>
        LET cap == Min(pls_call.n_samples - 1, pls_call.n_features)
        IN /\ pls_call.n_components >= 1
           /\ cap >= 1 => pls_call.n_components <= cap
           /\ (cap >= 1 /\ pls_call.requested >= 1) =>
                 pls_call.n_components = Min(pls_call.requested, cap)
           /\ cap < 1 => pls_call.n_components = 1

\* A call asking for 10 components on a 3 x 3 matrix: 2 are fitted.
PlsRequestAboveCap ==
    /\ pls_call.called
    /\ pls_call.requested = 10
    /\ pls_call.n_samples = 3
    /\ pls_call.n_features = 3
    /\ pls_call.n_components = 2

(***************************************************************************)
(* The train/validation split.  Both scripts seed ambient global           *)
(* generators at the start of main and split with what the generator gives *)
(* when the split is reached:                                              *)
(*   network  torch.manual_seed(42); Data.random_split draws               *)
(*            torch.randperm(n) from torch's default generator, which      *)
(*            nothing else uses between the seed and the split;            *)
(*   SVR      np.random.seed(42); np.random.permutation(n_samples) draws   *)
(*            from numpy's global generator, after PCA.fit_transform.      *)
(* PCA() is created without random_state: when scikit-learn's default      *)
(* policy picks the randomized solver (more than 500 rows or columns and   *)
(* fewer components than 80% of the smaller dimension, for a matrix that   *)
(* is not at least ten times taller than wide) the fit draws its random    *)
(* test matrix from numpy's global generator.                              *)
(* A generator is its seed and the number of values drawn since seeding;   *)
(* what it returns for a permutation of n is a function of that state,     *)
(* fixed but unknown: shuffle gives it, as a rotation of 0..n-1.           *)
(***************************************************************************)
Seed == 42              \* torch.manual_seed(42), np.random.seed(42)
SolverFullUpTo == 500   \* scikit-learn: max(X.shape) <= 500 uses the full solver
MaxSplitSamples == 3    \* samples of a small data set
MaxShuffle == 1         \* rotations a generator state may stand for: 0..MaxShuffle

\* The matrices handed to the PCA fit: small ones, and 501 rows with 33 or
\* 100 selected columns.
SplitDatasets ==
    [n_samples : 2..MaxSplitSamples, cols : 1..2]
        \cup [n_samples : {SolverFullUpTo + 1}, cols : {PcaRequested + 1, TopKRequested}]

\* PCA(n_components=k).fit_transform on n_samples x cols uses the randomized solver.
PcaSolverRandomized(n_samples, cols, k) ==
    /\ ~(cols <= 1000 /\ n_samples >= 10 * cols)
    /\ Max(n_samples, cols) > SolverFullUpTo
    /\ 1 <= k /\ 10 * k < 8 * Min(n_samples, cols)

\* The values the PCA fit draws from numpy's global generator.
PcaDraws(data) ==
    LET k == Min(PcaRequested, data.cols)
    IN IF PcaSolverRandomized(data.n_samples, data.cols, k) THEN data.cols * k ELSE 0

\* The generator states a split can be reached in, with the sample count.
SplitKeys(v) ==
    {<<d, n>> : d \in {0} \cup (IF v = "svr" THEN {PcaDraws(data) : data \in SplitDatasets}
                                              ELSE {}),
                n \in {data.n_samples : data \in SplitDatasets}}

\* The permutation of 0..n-1 the generator returns: the rotation by c.
Permutation(c, n) == [i \in 1..n |-> (i - 1 + c) % n]

\* indices[:n_train] and indices[n_train:], as sets of sample indices.
Partition(indices, n_train) ==
    [train |-> {indices[i] : i \in 1..n_train},
     val   |-> {indices[i] : i \in (n_train + 1)..Len(indices)}]

InitSplit ==
    /\ variant \in Variants
    /\ \E shuffle \in [SplitKeys(variant) -> 0..MaxShuffle] :
          split = [NoSplit EXCEPT !.shuffle = shuffle]
    /\ train = NoTrain
    /\ pls_call = NoPlsCall
    /\ io = NoIo
    /\ save_call = NoSaveCall
    /\ scale_call = NoScaleCall
    /\ vip_call = NoVipCall
    /\ snv_call = NoSnvCall
    /\ run = NoRun
    /\ disk = NoDisk

\* main starts: the seeds are set, the data is loaded and preprocessed.
SplitSeed ==
    /\ split.pc = "idle"
    /\ Len(split.history) < MaxRuns
    /\ \E data \in SplitDatasets :
          split' = [split EXCEPT !.pc = "pca", !.data = data,
                                 !.rng = [seed |-> Seed, drawn |-> 0]]
    /\ UNCHANGED <<vip_call, snv_call, variant, run, disk, scale_call, save_call, io, pls_call, train>>

\* pca.fit_transform(snv_feat): in the SVR script the generator it may draw
\* from is the one the split uses; in the network script it is not.
SplitPcaFit ==
    /\ split.pc = "pca"
    /\ split' = [split EXCEPT !.pc = "split",
                              !.rng.drawn = IF variant = "svr"
                                            THEN @ + PcaDraws(split.data) ELSE @]
    /\ UNCHANGED <<vip_call, snv_call, variant, run, disk, scale_call, save_call, io, pls_call, train>>

\* The split: int(0.8 * n) shuffled indices for training, the rest for validation.
SplitPartition ==
    /\ split.pc = "split"
    /\ LET n       == split.data.n_samples
           indices == Permutation(split.shuffle[<<split.rng.drawn, n>>], n)
           parts   == Partition(indices, TrainSize(n))
       IN split' = [split EXCEPT !.pc = "done",
                                 !.rng.drawn = @ + n,
                                 !.history = Append(@, [n_samples |-> n,
                                                        cols      |-> split.data.cols,
                                                        train     |-> parts.train,
                                                        val       |-> parts.val])]
    /\ UNCHANGED <<vip_call, snv_call, variant, run, disk, scale_call, save_call, io, pls_call, train>>

\* main returns; it may be called again in the same process.
SplitReturn ==
    /\ split.pc = "done"
    /\ split' = [split EXCEPT !.pc = "idle"]
    /\ UNCHANGED <<vip_call, snv_call, variant, run, disk, scale_call, save_call, io, pls_call, train>>

NextSplit ==
    \/ SplitSeed
    \/ SplitPcaFit
    \/ SplitPartition
    \/ SplitReturn

SpecSplit == InitSplit /\ [][NextSplit]_vars

\* C16: two runs with the same seed and the same number of samples, one after
\* the other in the same process included, make the same partition of the
\* sample indices: floor(0.8 * n) training samples and the rest for
\* validation, disjoint and together covering every sample.
SplitDeterministicInSeedAndCount ==
    /\ \A r \in Range(split.history) :
          /\ Cardinality(r.train) = (8 * r.n_samples) \div 10
          /\ r.train \cap r.val = {}
          /\ r.train \cup r.val = 0..(r.n_samples - 1)
    /\ \A r1, r2 \in Range(split.history) :
          r1.n_samples = r2.n_samples => (r1.train = r2.train /\ r1.val = r2.val)

(***************************************************************************)
(* train_model and the checkpoint main loads after it.  One action is one  *)
(* pass of the epoch loop.  The losses are whatever the network and the    *)
(* data give: the validation loss of an epoch is a number or nan.  The     *)
(* lists train_losses and val_losses are kept as their lengths, and lowest *)
(* is the earliest epoch of the lowest validation loss appended so far.    *)
(***************************************************************************)
Patience == 20      \* patience = 20

MaxEpochs == 22     \* the largest epochs argument
MaxLoss == 1        \* validation losses are 0..MaxLoss or nan

LossValues == {Loss(v) : v \in 0..MaxLoss} \cup {LossNaN}

EpochsArguments == {0, 1, 2, Patience, MaxEpochs}

\* a < b on floats: false when either is nan; every number is below inf.
LossLess(a, b) ==
    /\ a.kind # "nan" /\ b.kind # "nan"
    /\ a.kind # "inf"
    /\ b.kind = "inf" \/ a.v < b.v

\* The stop test with > for >=.
EarlyStopAbove(patience_counter) == patience_counter > Patience

\* if patience_counter >= patience: break
EarlyStop(patience_counter) == patience_counter >= Patience

InitTrain ==
    /\ \E checkpoint \in {NoCheckpoint, EarlierCheckpoint} :
          train = [NoTrain EXCEPT !.checkpoint = checkpoint]
    /\ split = NoSplit
    /\ pls_call = NoPlsCall
    /\ io = NoIo
    /\ save_call = NoSaveCall
    /\ scale_call = NoScaleCall
    /\ vip_call = NoVipCall
    /\ snv_call = NoSnvCall
    /\ variant = "dnn"
    /\ run = NoRun
    /\ disk = NoDisk

\* train_model(model, train_loader, val_loader, epochs, ...) up to the loop.
TrainModelCall ==
    /\ train.pc = "idle"
    /\ \E epochs \in EpochsArguments :
          train' = [train EXCEPT !.pc = "loop", !.epochs = epochs, !.epoch = 0,
                                 !.best_val_loss = LossInf, !.patience_counter = 0,
                                 !.train_losses = 0, !.val_losses = 0]
    /\ UNCHANGED <<vip_call, snv_call, variant, run, disk, scale_call, save_call, io, pls_call, split>>

\* One epoch: training, validation, the two appends, the checkpoint on a
\* strict improvement, the patience counter and the early stop.
TrainEpoch ==
    /\ train.pc = "loop"
    /\ train.epoch < train.epochs
    /\ \E val_loss \in LossValues :
          LET epoch    == train.epoch + 1
              improved == LossLess(val_loss, train.best_val_loss)
              counter  == IF improved THEN 0 ELSE train.patience_counter + 1
          IN train' = [train EXCEPT
                 !.epoch = epoch,
                 !.val_loss = val_loss,
                 !.train_losses = @ + 1,
                 !.val_losses = @ + 1,
                 !.lowest = IF LossLess(val_loss, @.val_loss)
                            THEN [epoch |-> epoch, val_loss |-> val_loss] ELSE @,
                 !.best_val_loss = IF improved THEN val_loss ELSE @,
                 !.patience_counter = counter,
                 !.checkpoint = IF improved
                                THEN [exists |-> TRUE, from |-> "this call",
                                      epoch |-> epoch, val_loss |-> val_loss]
                                ELSE @,
                 !.pc = IF EarlyStop(counter) THEN "returned" ELSE "loop"]
    /\ UNCHANGED <<vip_call, snv_call, variant, run, disk, scale_call, save_call, io, pls_call, split>>

\* range(epochs) is exhausted: return train_losses, val_losses.
TrainReturn ==
    /\ train.pc = "loop"
    /\ train.epoch = train.epochs
    /\ train' = [train EXCEPT !.pc = "returned"]
    /\ UNCHANGED <<vip_call, snv_call, variant, run, disk, scale_call, save_call, io, pls_call, split>>

\* main: model.load_state_dict(torch.load('model/spectrum_best.pth'))
LoadBestModel ==
    /\ train.pc = "returned"
    /\ train' = [train EXCEPT !.pc = IF train.checkpoint.exists THEN "loaded" ELSE "failed",
                              !.loaded = train.checkpoint]
    /\ UNCHANGED <<vip_call, snv_call, variant, run, disk, scale_call, save_call, io, pls_call, split>>

NextTrain ==
    \/ TrainModelCall
    \/ TrainEpoch
    \/ TrainReturn
    \/ LoadBestModel

\* The loop body and the return are steps of a sequential program: they
\* are taken when they can be.
SpecTrain == InitTrain /\ [][NextTrain]_vars /\ WF_vars(NextTrain)

\* C17: whenever train_model returns, the checkpoint exists and holds the
\* weights saved during this call at the earliest epoch with the lowest
\* validation loss, so what main loads is never the checkpoint of an
\* earlier run.
CheckpointIsBestOfThisCall ==
    /\ train.pc = "returned" =>
          /\ train.checkpoint.exists
          /\ train.checkpoint.from = "this call"
          /\ train.checkpoint.epoch = train.lowest.epoch
          /\ train.checkpoint.val_loss = train.lowest.val_loss
    /\ train.pc # "failed"
    /\ train.pc = "loaded" => train.loaded.from = "this call"

\* C18: the epoch loop always terminates; it runs at most `epochs` epochs and
\* breaks at the end of the first epoch at which 20 consecutive epochs have
\* passed without a strict improvement of the validation loss; the patience
\* counter is 0 after a strict improvement and one more otherwise, and never
\* exceeds 20; each executed epoch appends exactly one training loss and one
\* validation loss.
TrainLoopTerminates ==
    /\ [](/\ train.epoch <= train.epochs
          /\ train.patience_counter <= Patience
          /\ train.train_losses = train.epoch
          /\ train.val_losses = train.epoch
          /\ train.pc = "loop" => train.patience_counter < Patience
          /\ (train.pc = "returned" /\ train.epoch < train.epochs) =>
                train.patience_counter = Patience)
    /\ [][train'.epoch = train.epoch + 1 =>
             train'.patience_counter =
                 IF LossLess(train'.val_loss, train.best_val_loss)
                 THEN 0 ELSE train.patience_counter + 1]_vars
    /\ (train.pc = "loop") ~> (train.pc = "returned")

\* A call that improved in its first epoch and stopped early 20 epochs
\* later, before the epochs it was given were used up.
TrainStoppedEarly ==
    /\ train.pc = "returned"
    /\ train.epochs = MaxEpochs
    /\ train.epoch = Patience + 1
    /\ train.patience_counter = Patience
    /\ train.checkpoint.epoch = 1
    /\ train.val_losses = Patience + 1

=============================================================================
